---- MODULE Spec2Model ----
(***************************************************************************)
(* The two netbooks tutorials as state machines.                           *)
(*                                                                         *)
(*   netZooPy/dragon_tutorial.ipynb          (Python kernel)               *)
(*   netZooR/panda_gtex_tutorial_server.ipynb (R kernel)                   *)
(*                                                                         *)
(* A notebook is a sequence of code cells, a cell a sequence of            *)
(* statements.  A statement is named by the line of the .ipynb file it     *)
(* starts on.  The kernel runs the statements of a cell in order and       *)
(* leaves the cell at the first statement that raises; what the earlier    *)
(* statements of the cell assigned stays assigned.                         *)
(*                                                                         *)
(* The state is the kernel's workspace: which statement last assigned each *)
(* variable (env), and the values of the variables the tutorials compute   *)
(* with (val).  The environment is the input files, what panda() returns,  *)
(* and which file reads and library calls raise; it is fixed when the      *)
(* kernel starts.                                                          *)
(***************************************************************************)
EXTENDS Integers, Sequences, FiniteSets, TLC

VARIABLES nb, pc, env, val, param, files, oracle, faulty, raised, ran, nameErrors

vars == <<nb, pc, env, val, param, files, oracle, faulty, raised, ran, nameErrors>>

(***************************************************************************)
(* Bounds of the model.                                                    *)
(***************************************************************************)
\* columns (samples) of the expression file
NSamples == 24
\* expression files differ by how the valid entries of a gene are placed
MaxOff == 2
\* rows (transcription factors) and columns (genes) of a regulatory network
NTFsNet == 10
NGenesNet == 21
\* panda() returns one of this many networks
MaxSeed == 2
\* statements of the environment that raise (missing file, failing call)
MaxFaults == 1

(***************************************************************************)
(* R's missing value.  NA_integer_ is the smallest 32 bit integer.         *)
(***************************************************************************)
NA == -2147483647 - 1

is_na(x) == x = NA

abs(x) == IF is_na(x) THEN NA ELSE IF x < 0 THEN -x ELSE x

\* x[i] for a vector: an index outside the vector yields NA
At(x, i) == IF i \in 1..Len(x) THEN x[i] ELSE NA

(***************************************************************************)
(* Statements.  line: where the statement starts; targets: the variables   *)
(* it assigns; reads: the variables it evaluates; call: the file read or   *)
(* library call it makes ("" when it makes none); when: the values of      *)
(* runserver under which its body runs ({} when it is not conditional).    *)
(***************************************************************************)
S(line, targets, reads, call) ==
    [line |-> line, targets |-> targets, reads |-> reads, call |-> call, when |-> {}]

SW(line, targets, reads, call, when) ==
    [line |-> line, targets |-> targets, reads |-> reads, call |-> call, when |-> when]

DragonCells ==
    << << S(29, {"simulate_dragon_data", "Scale", "estimate_penalty_parameters_dragon",
                 "get_partial_correlation_dragon", "estimate_p_values_dragon"}, {},
            "import"),
          S(30, {"plt"}, {}, "import"),
          S(31, {"np"}, {}, "import"),
          S(32, {"Axes3D", "art3d"}, {}, "import") >>,
       << S(49, {"n"}, {}, ""),
          S(50, {"p1"}, {}, ""),
          S(51, {"p2"}, {}, "") >>,
       << S(67, {"X1", "X2", "Theta", "_"}, {"simulate_dragon_data", "n"},
            "simulate_dragon_data") >>,
       << S(85, {"X1"}, {"Scale", "X1"}, "Scale"),
          S(86, {"X2"}, {"Scale", "X2"}, "Scale"),
          S(87, {}, {"X1"}, ""),
          S(88, {}, {"X2"}, "") >>,
       << S(106, {"lambdas", "lambdas_landscape"},
            {"estimate_penalty_parameters_dragon", "X1", "X2"},
            "estimate_penalty_parameters_dragon"),
          S(107, {}, {"lambdas"}, "") >>,
       << S(124, {"fig"}, {"plt"}, "plt.figure"),
          S(125, {"ax"}, {"plt"}, "plt.axes"),
          S(126, {"x"}, {"np"}, ""),
          S(127, {}, {"ax", "x", "lambdas_landscape"}, "ax.contour3D"),
          S(128, {"ind"}, {"np", "lambdas_landscape"}, ""),
          S(130, {}, {"ax", "x", "ind", "lambdas_landscape"}, "ax.plot"),
          S(134, {}, {"ax"}, "ax.set_xlabel"),
          S(135, {}, {"ax"}, "ax.set_ylabel"),
          S(136, {}, {"plt"}, "plt.show") >>,
       << S(153, {"r"}, {"get_partial_correlation_dragon", "X1", "X2", "lambdas"},
            "get_partial_correlation_dragon"),
          S(154, {}, {"r"}, "") >>,
       << S(178, {"adj_p_vals", "p_vals"},
            {"estimate_p_values_dragon", "r", "n", "p1", "p2", "lambdas"},
            "estimate_p_values_dragon") >>,
       << S(201, {}, {"plt", "Theta"}, "plt.imshow"),
          S(202, {}, {"plt"}, "plt.colorbar"),
          S(203, {}, {"plt"}, "plt.show") >>,
       << S(219, {}, {"plt", "adj_p_vals"}, "plt.imshow"),
          S(220, {}, {"plt"}, "plt.colorbar"),
          S(221, {}, {"plt"}, "plt.show") >> >>

\* the cell that builds the edges data frame: the same statements twice, but
\* for lines 486 and 487 of the differential plot
EdgesHead(l) ==
    << S(l, {"edges"}, {"nDiffs"}, ""),
       S(l + 1, {"edges"}, {"edges"}, ""),
       S(l + 2, {"edges"}, {"edges"}, ""),
       S(l + 3, {"aa"}, {"diffNet"}, ""),
       S(l + 4, {"bb"}, {"diffNet"}, ""),
       S(l + 5, {"edges"}, {"edges", "diffNet", "aa", "nDiffs"}, ""),
       S(l + 6, {"geneIdsTop"}, {"aa", "nDiffs", "diffNet"}, ""),
       S(l + 7, {"tfIdsTop"}, {"aa", "nDiffs", "diffNet"}, ""),
       S(l + 8, {"tfIdsTop"}, {"tfIdsTop", "nTFs"}, ""),
       S(l + 9, {"edges"}, {"edges", "diffNet", "geneIdsTop"}, ""),
       S(l + 10, {"edges"}, {"edges", "diffNet", "tfIdsTop"}, ""),
       S(l + 11, {"edges"}, {"edges"}, "") >>

NodesCell(l) ==
    << S(l, {"nodes"}, {"edges"}, ""),
       S(l + 2, {"nodes"}, {"nodes", "edges"}, "") >>

NetCell(l) ==
    << S(l, {"net"}, {"visNetwork", "nodes", "edges"}, "visNetwork"),
       S(l + 1, {"net"}, {"visGroups", "net"}, "visGroups"),
       S(l + 3, {"net"}, {"visGroups", "net"}, "visGroups"),
       S(l + 5, {}, {"visLegend", "net"}, "visLegend") >>

PandaCells ==
    << << S(30, {"runserver"}, {}, "") >>,
       << SW(48, {}, {"runserver"}, "install.packages", {0}) >>,
       << SW(73, {"ppath"}, {"runserver"}, "", {0, 1}) >>,
       << S(100, {"panda", "calcDegree", "calcDegreeDifference"}, {}, "library"),
          S(101, {"fgsea", "gmtPathways"}, {}, "library"),
          S(102, {"ggplot"}, {}, "library"),
          S(103, {}, {}, "library"),
          S(104, {"visNetwork", "visGroups", "visLegend"}, {}, "library") >>,
       << S(132, {"motif"}, {"ppath"}, "read.delim"),
          S(133, {}, {"motif"}, "") >>,
       << S(149, {"ppi"}, {"ppath"}, "read.delim"),
          S(150, {}, {"ppi"}, "") >>,
       << S(166, {"exp"}, {"ppath"}, "read.delim") >>,
       << S(182, {"exp"}, {"exp"}, "") >>,
       << S(198, {"zero_na_counts"}, {"exp"}, "") >>,
       << S(214, {"exp"}, {"exp", "zero_na_counts"}, "") >>,
       << S(230, {"lcl_samples"}, {"ppath"}, "read.delim") >>,
       << S(246, {"lcl_exp"}, {"exp", "lcl_samples"}, "") >>,
       << S(262, {"wblood_samples"}, {"ppath"}, "read.delim") >>,
       << S(278, {"wb_exp"}, {"exp", "wblood_samples"}, "") >>,
       << S(294, {"pandaLCL"}, {"panda", "motif", "lcl_exp", "ppi"}, "panda"),
          S(295, {}, {"pandaLCL"}, "") >>,
       << S(311, {"pandaWB"}, {"panda", "motif", "wb_exp", "ppi"}, "panda"),
          S(312, {}, {"pandaWB"}, "") >>,
       << S(328, {"regNetLCL"}, {"pandaLCL"}, ""),
          S(329, {"regNetWB"}, {"pandaWB"}, ""),
          S(330, {}, {"regNetLCL"}, "") >>,
       << S(367, {"nDiffs"}, {}, ""),
          S(368, {"diffNet"}, {"pandaLCL"}, ""),
          S(369, {"nTFs"}, {"diffNet"}, "") >>,
       EdgesHead(385) \o << S(397, {"edges"}, {"edges"}, "") >>,
       NodesCell(413),
       NetCell(433),
       << S(457, {"nDiffs"}, {}, ""),
          S(458, {"diffNet"}, {"pandaLCL", "pandaWB"}, "") >>,
       EdgesHead(474) \o << S(486, {"edges"}, {"edges"}, ""),
                            S(487, {"edges"}, {"edges"}, "") >>,
       NodesCell(503),
       NetCell(525),
       << S(549, {"lcl_outdegree"}, {"calcDegree", "pandaLCL"}, "calcDegree"),
          S(550, {"wb_outdegree"}, {"calcDegree", "pandaWB"}, "calcDegree") >>,
       << S(566, {"lcl_indegree"}, {"calcDegree", "pandaLCL"}, "calcDegree"),
          S(567, {"wb_indegree"}, {"calcDegree", "pandaWB"}, "calcDegree") >>,
       << S(583, {"degreeDiff"}, {"calcDegreeDifference", "pandaLCL", "pandaWB"},
            "calcDegreeDifference"),
          S(584, {}, {"degreeDiff"}, "") >>,
       << S(606, {"pathways"}, {"gmtPathways", "ppath"}, "gmtPathways") >>,
       << S(622, {"degreeDiff_all"}, {"ppath"}, "read.delim"),
          S(623, {"degreeDiff_all"}, {"degreeDiff_all"}, "") >>,
       << S(642, {"fgseaRes"}, {"fgsea", "pathways", "degreeDiff_all"}, "fgsea"),
          S(643, {}, {"fgseaRes"}, "") >>,
       << S(659, {"sig"}, {"fgseaRes"}, "") >>,
       << S(675, {}, {"sig"}, "") >>,
       << S(692, {"dat"}, {"fgseaRes"}, ""),
          S(694, {"fdrcut"}, {}, ""),
          S(695, {"dencol_neg"}, {}, ""),
          S(696, {"dencol_pos"}, {}, ""),
          S(697, {"signnamelength"}, {}, ""),
          S(698, {"asp"}, {}, ""),
          S(699, {"charcut"}, {}, "") >>,
       << S(715, {"a"}, {"dat"}, ""),
          S(716, {"j", "a"}, {"a", "signnamelength"}, ""),
          S(719, {"a"}, {"a"}, ""),
          S(720, {"j", "a"}, {"a", "charcut"}, ""),
          S(723, {"a"}, {"a"}, ""),
          S(724, {"dat"}, {"dat", "a"}, "") >>,
       << S(740, {"dat2"}, {"dat", "fdrcut"}, ""),
          S(741, {"dat2"}, {"dat2"}, ""),
          S(742, {"dat2"}, {"dat2"}, "") >>,
       << S(758, {"sign_neg"}, {"dat2"}, ""),
          S(759, {"sign_pos"}, {"dat2"}, "") >>,
       << S(775, {"signcol"}, {"dat2"}, ""),
          S(776, {"signcol"}, {"signcol", "sign_neg", "dencol_neg"}, ""),
          S(777, {"signcol"}, {"signcol", "sign_pos", "dencol_pos"}, ""),
          S(778, {"signcol"}, {"signcol"}, "") >>,
       << S(799, {"g"}, {"ggplot", "dat2"}, "ggplot"),
          S(800, {}, {"ggplot", "g", "fdrcut", "dencol_neg", "dencol_pos", "signcol", "asp"},
            "ggplot") >> >>

Notebooks == {"dragon", "panda"}

\* the second and third cell in the other order: in DRAGON the simulation
\* before the parameters it reads
CellsReordered(b) ==
    LET c == IF b = "dragon" THEN DragonCells ELSE PandaCells
    IN  [c EXCEPT ![2] = c[3], ![3] = c[2]]

Cells(b) == IF b = "dragon" THEN DragonCells ELSE PandaCells

NCells(b) == Len(Cells(b))

Statements(b) == UNION {{Cells(b)[c][k] : k \in 1..Len(Cells(b)[c])} : c \in 1..NCells(b)}

Lines(b) == {s.line : s \in Statements(b)}

\* the statements that read a file or call a library
Fallible(b) == {s.line : s \in {t \in Statements(b) : t.call /= ""}}

VarNames(b) == UNION {s.targets \cup s.reads : s \in Statements(b)}

StatementAt(b, l) == CHOOSE s \in Statements(b) : s.line = l

(***************************************************************************)
(* DRAGON: what the library calls of the notebook return, as far as the    *)
(* notebook's own text states it: the shapes of the matrices and the       *)
(* arguments a result was computed from.                                   *)
(***************************************************************************)
\* simulate_dragon_data(p1=, p2=, n=): n rows, p1 and p2 columns
simulate_dragon_data(p1arg, p2arg, narg) ==
    [X1 |-> [rows |-> narg, cols |-> p1arg], X2 |-> [rows |-> narg, cols |-> p2arg]]

\* Scale(X): the same shape
Scale(X) == X

estimate_penalty_parameters_dragon(X1, X2) == [X1 |-> X1, X2 |-> X2]

\* get_partial_correlation_dragon(X1, X2, lambdas): one row and one column for
\* each variable of X1 and of X2
get_partial_correlation_dragon(X1, X2, lambdas) ==
    [X1 |-> X1, X2 |-> X2, lambdas |-> lambdas,
     shape |-> <<X1.cols + X2.cols, X1.cols + X2.cols>>]

estimate_p_values_dragon(r, n, p1, p2, lambdas) ==
    [r |-> r, n |-> n, p1 |-> p1, p2 |-> p2, lambdas |-> lambdas]

(***************************************************************************)
(* PANDA: data frames and the expressions the notebook applies to them.    *)
(* A data frame is [rownames, colnames, rows]; rows[i][j] is the entry of  *)
(* row i in column j.                                                      *)
(***************************************************************************)
Log2(y) == CHOOSE k \in 0..31 : 2 ^ k = y

\* log2(x+1), entry by entry; NA stays NA
Log2Plus1(x) == IF is_na(x) THEN NA ELSE Log2(x + 1)

LogTransform(df) ==
    [df EXCEPT !.rows = [i \in 1..Len(df.rows) |->
                            [j \in 1..Len(df.rows[i]) |-> Log2Plus1(df.rows[i][j])]]]

\* function(x) length(x[(!is.na(x) & x!=0)])
Valid(e) == ~is_na(e) /\ e /= 0

CountValid(x) == Len(SelectSeq(x, Valid))

\* apply(exp, MARGIN = 1, FUN = ...)
ZeroNaCounts(df) == [i \in 1..Len(df.rows) |-> CountValid(df.rows[i])]

\* the indices 1..k, in order
Iota(k) == [i \in 1..k |-> i]

\* zero_na_counts > 20
KeepGene(count) == count > 20

\* exp[zero_na_counts > 20,]
FilterRows(df, counts) ==
    LET keep == SelectSeq(Iota(Len(df.rows)), LAMBDA i : KeepGene(At(counts, i)))
    IN  [rownames |-> [k \in 1..Len(keep) |-> df.rownames[keep[k]]],
         colnames |-> df.colnames,
         rows |-> [k \in 1..Len(keep) |-> df.rows[keep[k]]]]

Range(x) == {x[i] : i \in 1..Len(x)}

\* exp[,colnames(exp) %in% samples[,1]]
SelectColumns(df, samples) ==
    LET keep == SelectSeq(Iota(Len(df.colnames)),
                          LAMBDA j : df.colnames[j] \in Range(samples))
    IN  [rownames |-> df.rownames,
         colnames |-> [k \in 1..Len(keep) |-> df.colnames[keep[k]]],
         rows |-> [i \in 1..Len(df.rows) |->
                      [k \in 1..Len(keep) |-> df.rows[i][keep[k]]]]]

(***************************************************************************)
(* A regulatory network is [nr, nc, rownames, colnames, v]: nr             *)
(* transcription factors (rows), nc genes (columns), and the weights v in  *)
(* R's column-major order: entry (t, g) is v[(g - 1) * nr + t].            *)
(***************************************************************************)
Minus(x, y) == IF is_na(x) \/ is_na(y) THEN NA ELSE x - y

\* pandaLCL@regNet - pandaWB@regNet
NetDifference(a, b) == [a EXCEPT !.v = [k \in 1..Len(a.v) |-> Minus(a.v[k], At(b.v, k))]]

MaxOf(x) == IF x = <<>> THEN 0 ELSE CHOOSE m \in Range(x) : \A e \in Range(x) : e <= m

\* order(x, decreasing = TRUE) of non-negative weights: the indices by
\* decreasing weight, equal weights in index order (the sort is stable)
RECURSIVE OrderFrom(_, _)
OrderFrom(x, a) ==
    IF a < 0 THEN <<>>
    ELSE SelectSeq(Iota(Len(x)), LAMBDA i : x[i] = a) \o OrderFrom(x, a - 1)

OrderDecreasing(x) == OrderFrom(x, MaxOf(x))

\* order(as.matrix(abs(diffNet)), decreasing = TRUE)
TopOrder(net) == OrderDecreasing([k \in 1..Len(net.v) |-> abs(net.v[k])])

\* matrix(0L, nDiffs, 3) with colnames from, to, value, as a data frame
EmptyEdges(k) ==
    [from |-> [i \in 1..k |-> 0], to |-> [i \in 1..k |-> 0], value |-> [i \in 1..k |-> 0]]

IntDiv(a, b) == IF is_na(a) THEN NA ELSE a \div b

Mod(a, b) == IF is_na(a) THEN NA ELSE a % b

\* (aa[1:nDiffs] %/% dim(diffNet)[1]) + 1
GeneIdsTop(aa, k, net) ==
    [i \in 1..k |-> IF is_na(At(aa, i)) THEN NA ELSE IntDiv(At(aa, i), net.nr) + 1]

\* aa[1:nDiffs] %% dim(diffNet)[1]
TfIdsTop(aa, k, net) == [i \in 1..k |-> Mod(At(aa, i), net.nr)]

\* tfIdsTop[tfIdsTop == 0] = nTFs
ZeroToLast(ids, last) == [i \in 1..Len(ids) |-> IF ids[i] = 0 THEN last ELSE ids[i]]

\* names[ids]
Names(names, ids) == [i \in 1..Len(ids) |-> At(names, ids[i])]

\* as.matrix(diffNet)[aa[1:nDiffs]]
Weights(net, aa, k) == [i \in 1..k |-> At(net.v, At(aa, i))]

(***************************************************************************)
(* The environment: the runserver parameter the user sets in the first     *)
(* cell, the input files, and the networks panda() returns.                *)
(***************************************************************************)
RunserverValues == {0, 1, 2}

\* TPM of gene row (k, off) in column j: k valid entries from column off + 1 on
\* (wrapping around); the other entries are zero or missing
RawEntry(k, off, j) ==
    IF ((j - 1 - off) % NSamples) < k
    THEN (IF j % 2 = 1 THEN 1 ELSE 3)
    ELSE (IF j % 2 = 1 THEN 0 ELSE NA)

GeneValidCounts == <<19, 20, 21, NSamples>>

ExpressionFile(off) ==
    [rownames |-> Iota(Len(GeneValidCounts)),
     colnames |-> Iota(NSamples),
     rows |-> [i \in 1..Len(GeneValidCounts) |->
                  [j \in 1..NSamples |-> RawEntry(GeneValidCounts[i], off * i, j)]]]

ExpressionFiles == {ExpressionFile(off) : off \in 0..MaxOff}

\* sample ids are the column names of the expression file; a sample file may
\* name a sample the expression file does not have
LCLFiles == {Iota(NSamples \div 2), Append(Iota(NSamples), NSamples + 1)}

WholeBloodFiles ==
    {[i \in 1..(NSamples - NSamples \div 2) |-> NSamples \div 2 + i], Iota(NSamples)}

Weight(seed, k) == ((k * (seed + 2) + (k \div 7) * seed) % 9) - 4

RegNet(seed) ==
    [nr |-> NTFsNet, nc |-> NGenesNet,
     rownames |-> Iota(NTFsNet), colnames |-> Iota(NGenesNet),
     v |-> [k \in 1..(NTFsNet * NGenesNet) |-> Weight(seed, k)]]

Seeds == 1..MaxSeed

Packages == {"devtools", "netZooR", "BiocManager", "fgsea", "ggplot2", "reshape2"}

paste0(a, b) == a \o b

(***************************************************************************)
(* The workspace before the first cell: nothing is assigned.  A variable   *)
(* that is not assigned has a placeholder in val that no statement reads   *)
(* (a statement whose reads are not all assigned raises).                  *)
(***************************************************************************)
NoShape == [rows |-> 0, cols |-> 0]

NoLambdas == [X1 |-> NoShape, X2 |-> NoShape]

NoR == [X1 |-> NoShape, X2 |-> NoShape, lambdas |-> NoLambdas, shape |-> <<0, 0>>]

NoFrame == [rownames |-> <<>>, colnames |-> <<>>, rows |-> <<>>]

NoNet == [nr |-> 0, nc |-> 0, rownames |-> <<>>, colnames |-> <<>>, v |-> <<>>]

NoPanda == [expr |-> NoFrame, regNet |-> NoNet]

DragonVal ==
    [n |-> 0, p1 |-> 0, p2 |-> 0, X1 |-> NoShape, X2 |-> NoShape,
     lambdas |-> NoLambdas, r |-> NoR,
     adj_p_vals |-> [r |-> NoR, n |-> 0, p1 |-> 0, p2 |-> 0, lambdas |-> NoLambdas]]

PandaVal ==
    [runserver |-> 0, installed |-> {}, ppath |-> "", filesRead |-> <<>>,
     exp |-> NoFrame, zero_na_counts |-> <<>>,
     lcl_samples |-> <<>>, wblood_samples |-> <<>>,
     lcl_exp |-> NoFrame, wb_exp |-> NoFrame,
     pandaLCL |-> NoPanda, pandaWB |-> NoPanda,
     nDiffs |-> 0, diffNet |-> NoNet, nTFs |-> 0,
     aa |-> <<>>, geneIdsTop |-> <<>>, tfIdsTop |-> <<>>,
     edges |-> EmptyEdges(0)]

EmptyVal(b) == IF b = "dragon" THEN DragonVal ELSE PandaVal

(***************************************************************************)
(* What a statement that completes does to the values.                     *)
(***************************************************************************)
DragonEffect(l, v) ==
    CASE l = 49 -> [v EXCEPT !.n = 1000]
      [] l = 50 -> [v EXCEPT !.p1 = 500]
      [] l = 51 -> [v EXCEPT !.p2 = 100]
      [] l = 67 -> LET d == simulate_dragon_data(100, 500, v.n)
                   IN  [v EXCEPT !.X1 = d.X1, !.X2 = d.X2]
      [] l = 85 -> [v EXCEPT !.X1 = Scale(v.X1)]
      [] l = 86 -> [v EXCEPT !.X2 = Scale(v.X2)]
      [] l = 106 -> [v EXCEPT !.lambdas = estimate_penalty_parameters_dragon(v.X1, v.X2)]
      [] l = 153 -> [v EXCEPT !.r = get_partial_correlation_dragon(v.X1, v.X2, v.lambdas)]
      [] l = 178 -> [v EXCEPT !.adj_p_vals =
                                 estimate_p_values_dragon(v.r, v.n, v.p1, v.p2, v.lambdas)]
      [] OTHER -> v

\* a read of the bare file name, without ppath
ReadFileNoPath(v, name) == [v EXCEPT !.filesRead = Append(@, name)]

\* read.delim(paste0(ppath, name)), gmtPathways(paste0(ppath, name))
ReadFile(v, name) == [v EXCEPT !.filesRead = Append(@, paste0(v.ppath, name))]

\* the edges cell up to edges$arrows; l is the line the cell starts on
EdgesEffect(k, v) ==
    CASE k = 0 -> [v EXCEPT !.edges = EmptyEdges(v.nDiffs)]
      [] k = 3 -> [v EXCEPT !.aa = TopOrder(v.diffNet)]
      [] k = 5 -> [v EXCEPT !.edges.value = Weights(v.diffNet, v.aa, v.nDiffs)]
      [] k = 6 -> [v EXCEPT !.geneIdsTop = GeneIdsTop(v.aa, v.nDiffs, v.diffNet)]
      [] k = 7 -> [v EXCEPT !.tfIdsTop = TfIdsTop(v.aa, v.nDiffs, v.diffNet)]
      [] k = 8 -> [v EXCEPT !.tfIdsTop = ZeroToLast(v.tfIdsTop, v.nTFs)]
      [] k = 9 -> [v EXCEPT !.edges.to = Names(v.diffNet.colnames, v.geneIdsTop)]
      [] k = 10 -> [v EXCEPT !.edges.from = Names(v.diffNet.rownames, v.tfIdsTop)]
      [] OTHER -> v

PandaEffect(l, v) ==
    CASE l = 30 -> [v EXCEPT !.runserver = param]
      [] l = 48 -> [v EXCEPT !.installed = Packages]
      [] l = 73 -> [v EXCEPT !.ppath = IF v.runserver = 1 THEN "/opt/data/" ELSE ""]
      [] l = 132 -> ReadFile(v, "motif_subset.txt")
      [] l = 149 -> ReadFile(v, "ppi_subset.txt")
      [] l = 166 -> [ReadFile(v, "expression_tpm_lcl_blood_subset.txt")
                        EXCEPT !.exp = files.expression]
      [] l = 182 -> [v EXCEPT !.exp = LogTransform(v.exp)]
      [] l = 198 -> [v EXCEPT !.zero_na_counts = ZeroNaCounts(v.exp)]
      [] l = 214 -> [v EXCEPT !.exp = FilterRows(v.exp, v.zero_na_counts)]
      [] l = 230 -> [ReadFile(v, "LCL_samples.txt") EXCEPT !.lcl_samples = files.lcl]
      [] l = 246 -> [v EXCEPT !.lcl_exp = SelectColumns(v.exp, v.lcl_samples)]
      [] l = 262 -> [ReadFile(v, "WholeBlood_samples.txt")
                        EXCEPT !.wblood_samples = files.wb]
      [] l = 278 -> [v EXCEPT !.wb_exp = SelectColumns(v.exp, v.wblood_samples)]
      [] l = 294 -> [v EXCEPT !.pandaLCL = [expr |-> v.lcl_exp, regNet |-> RegNet(oracle.lcl)]]
      [] l = 311 -> [v EXCEPT !.pandaWB = [expr |-> v.wb_exp, regNet |-> RegNet(oracle.wb)]]
      [] l = 367 -> [v EXCEPT !.nDiffs = 200]
      [] l = 368 -> [v EXCEPT !.diffNet = v.pandaLCL.regNet]
      [] l = 369 -> [v EXCEPT !.nTFs = v.diffNet.nr]
      [] l \in 385..396 -> EdgesEffect(l - 385, v)
      [] l = 457 -> [v EXCEPT !.nDiffs = 200]
      [] l = 458 -> [v EXCEPT !.diffNet = NetDifference(v.pandaLCL.regNet, v.pandaWB.regNet)]
      [] l \in 474..485 -> EdgesEffect(l - 474, v)
      [] l = 487 -> [v EXCEPT !.edges.value = [i \in 1..Len(@) |-> abs(@[i])]]
      [] l = 606 -> ReadFile(v, "c2.cp.kegg.v7.0.symbols.gmt")
      [] l = 622 -> ReadFile(v, "lclWB_indegreeDifference.rnk")
      [] OTHER -> v

Effect(b, l, v) == IF b = "dragon" THEN DragonEffect(l, v) ELSE PandaEffect(l, v)

(***************************************************************************)
(* The kernel.  w is the workspace while a cell runs: env, val, the        *)
(* statements that completed (ran), the line that raised (raisedAt, 0 when *)
(* none did) and the reads of variables that were not assigned.            *)
(***************************************************************************)
Unassigned(st, w) == {x \in st.reads : w.env[x] = 0}

\* if (runserver == ...) { body }: the body runs when the condition holds
BodyRuns(st, w) == st.when = {} \/ w.val.runserver \in st.when

Assign(b, st, w) ==
    [w EXCEPT !.env = [x \in DOMAIN w.env |-> IF x \in st.targets THEN st.line ELSE w.env[x]],
              !.val = Effect(b, st.line, w.val),
              !.ran = @ \cup {st.line}]

\* a call that raises and still leaves a value in the variables it was to
\* assign
ExecStatementDefault(b, st, w) ==
    IF Unassigned(st, w) /= {}
    THEN [w EXCEPT !.raisedAt = st.line,
                   !.nameErrors = @ \cup {<<st.line, x>> : x \in Unassigned(st, w)}]
    ELSE IF ~BodyRuns(st, w)
    THEN [w EXCEPT !.ran = @ \cup {st.line}]
    ELSE IF st.line \in faulty
    THEN [Assign(b, st, w) EXCEPT !.raisedAt = st.line, !.ran = w.ran]
    ELSE Assign(b, st, w)

ExecStatement(b, st, w) ==
    IF Unassigned(st, w) /= {}
    THEN [w EXCEPT !.raisedAt = st.line,
                   !.nameErrors = @ \cup {<<st.line, x>> : x \in Unassigned(st, w)}]
    ELSE IF ~BodyRuns(st, w)
    THEN [w EXCEPT !.ran = @ \cup {st.line}]
    ELSE IF st.line \in faulty
    THEN [w EXCEPT !.raisedAt = st.line]
    ELSE Assign(b, st, w)

RECURSIVE ExecFrom(_, _, _, _)
ExecFrom(b, cell, k, w) ==
    IF k > Len(cell) \/ w.raisedAt /= 0 THEN w
    ELSE ExecFrom(b, cell, k + 1, ExecStatement(b, cell[k], w))

ExecCell(b, cell) ==
    ExecFrom(b, cell, 1,
             [env |-> env, val |-> val, ran |-> ran, raisedAt |-> 0,
              nameErrors |-> nameErrors])

\* the sets of at most k statements that read a file or call a library
RECURSIVE FaultSets(_, _)
FaultSets(b, k) ==
    IF k = 0 THEN {{}}
    ELSE {f \cup {l} : f \in FaultSets(b, k - 1), l \in Fallible(b)} \cup {{}}

Environment ==
    /\ param \in RunserverValues
    /\ files \in [expression : ExpressionFiles, lcl : LCLFiles, wb : WholeBloodFiles]
    /\ oracle \in [lcl : Seeds, wb : Seeds]

\* with a statement that raises, the data is the first of each kind
FirstEnvironment ==
    /\ param \in RunserverValues
    /\ files = [expression |-> ExpressionFile(0), lcl |-> Iota(NSamples \div 2),
                wb |-> Iota(NSamples)]
    /\ oracle = [lcl |-> 1, wb |-> MaxSeed]

\* the DRAGON notebook reads no file and has no parameter
NoEnvironment ==
    /\ param = 0
    /\ files = [expression |-> NoFrame, lcl |-> <<>>, wb |-> <<>>]
    /\ oracle = [lcl |-> 1, wb |-> 1]

Init ==
    /\ nb \in Notebooks
    /\ pc = 1
    /\ env = [x \in VarNames(nb) |-> 0]
    /\ val = EmptyVal(nb)
    /\ raised = {}
    /\ ran = {}
    /\ nameErrors = {}
    /\ faulty \in FaultSets(nb, MaxFaults)
    /\ IF nb = "dragon" THEN NoEnvironment
       ELSE IF faulty = {} THEN Environment
       ELSE FirstEnvironment

\* a cell runs to its end
RunCell ==
    /\ pc <= NCells(nb)
    /\ LET w == ExecCell(nb, Cells(nb)[pc])
       IN  /\ w.raisedAt = 0
           /\ env' = w.env
           /\ val' = w.val
           /\ ran' = w.ran
           /\ pc' = pc + 1
    /\ UNCHANGED <<nb, param, files, oracle, faulty, raised, nameErrors>>

\* a statement of the cell raises: the rest of the cell does not run.  The
\* front end then runs the next cell (cell by cell) or none (Run All).
CellRaises ==
    /\ pc <= NCells(nb)
    /\ LET w == ExecCell(nb, Cells(nb)[pc])
       IN  /\ w.raisedAt /= 0
           /\ env' = w.env
           /\ val' = w.val
           /\ ran' = w.ran
           /\ raised' = raised \cup {w.raisedAt}
           /\ nameErrors' = w.nameErrors
           /\ pc' \in {pc + 1, NCells(nb) + 1}
    /\ UNCHANGED <<nb, param, files, oracle, faulty>>

Next == RunCell \/ CellRaises

Spec == Init /\ [][Next]_vars

(***************************************************************************)
(* Properties.                                                             *)
(***************************************************************************)
Dragon == nb = "dragon"

Panda == nb = "panda"

Finished == pc = NCells(nb) + 1

\* C1: after the simulation and scaling cells, X1 is n by p1 = 1000 by 500 and
\* X2 is n by p2 = 1000 by 100, and r, once computed, is 600 by 600.
C1_ShapesAsDocumented ==
    /\ (Dragon /\ env["X1"] = 85 /\ env["X2"] = 86) =>
          /\ val.X1 = [rows |-> 1000, cols |-> 500]
          /\ val.X2 = [rows |-> 1000, cols |-> 100]
          /\ val.X1.cols = val.p1
          /\ val.X2.cols = val.p2
    /\ (Dragon /\ env["r"] = 153) => val.r.shape = <<600, 600>>

\* C2: estimate_p_values_dragon(r, n, p1, p2, lambdas) is called with n the
\* number of rows and p1, p2 the numbers of columns of the X1 and X2 that r was
\* computed from, and with the lambdas r was computed with.
C2_PValueArgumentsMatchR ==
    (Dragon /\ env["adj_p_vals"] = 178) =>
        LET a == val.adj_p_vals
        IN  /\ a.n = a.r.X1.rows
            /\ a.n = a.r.X2.rows
            /\ a.p1 = a.r.X1.cols
            /\ a.p2 = a.r.X2.cols
            /\ a.lambdas = a.r.lambdas

\* the log-transformed expression table the filter is applied to
Transformed == LogTransform(files.expression)

\* C3: the filter keeps exactly the genes with at least 20 entries that are
\* neither NA nor zero after log2(x+1).
C3_KeepsGenesWithAtLeast20Valid ==
    (Panda /\ env["exp"] = 214) =>
        Range(val.exp.rownames) =
            {Transformed.rownames[i] : i \in
                {k \in 1..Len(Transformed.rows) : CountValid(Transformed.rows[k]) >= 20}}

EnoughValid(df) == \A i \in 1..Len(df.rows) : CountValid(df.rows[i]) >= 20

\* C4: every gene row of the expression matrix passed to panda(), restricted
\* to the samples of that run, has at least 20 entries that are neither NA nor
\* zero.
C4_PandaVectorsHaveEnoughValues ==
    /\ (Panda /\ env["pandaLCL"] = 294) => EnoughValid(val.pandaLCL.expr)
    /\ (Panda /\ env["pandaWB"] = 311) => EnoughValid(val.pandaWB.expr)

InputFileNames ==
    << "motif_subset.txt", "ppi_subset.txt", "expression_tpm_lcl_blood_subset.txt",
       "LCL_samples.txt", "WholeBlood_samples.txt", "c2.cp.kegg.v7.0.symbols.gmt",
       "lclWB_indegreeDifference.rnk" >>

\* the statements that read the seven input files, in the order of
\* InputFileNames
InputFileLines == <<132, 149, 166, 230, 262, 606, 622>>

\* C5: runserver = 1: nothing is installed and ppath is '/opt/data/';
\* runserver = 0: the installation block runs and ppath is ''; each of the
\* seven input files that has been read was read from ppath followed by its
\* name, and ppath is assigned by the ppath cell alone.
C5_RunserverSelectsPaths ==
    Panda =>
        /\ env["ppath"] \in {0, 73}
        /\ (pc > 2 /\ val.runserver = 1) => val.installed = {}
        /\ (pc > 2 /\ val.runserver = 0 /\ 48 \notin faulty) => val.installed = Packages
        /\ (pc > 3 /\ val.runserver = 1) => val.ppath = "/opt/data/"
        /\ (pc > 3 /\ val.runserver = 0) => val.ppath = ""
        /\ val.filesRead =
              SelectSeq([i \in 1..7 |-> val.ppath \o InputFileNames[i]],
                        LAMBDA path : \E i \in 1..7 : /\ path = val.ppath \o InputFileNames[i]
                                                      /\ InputFileLines[i] \in ran)

C5_Witness ==
    /\ Panda /\ Finished
    /\ val.runserver = 0 /\ val.installed = Packages
    /\ Len(val.filesRead) = 7

\* C6: with runserver 0 or 1 and no file read or library call raising, every
\* variable a statement reads was assigned by an earlier statement: no
\* statement raises, and all of them run.
C6_ReadsAreAssignedEarlier ==
    (faulty = {} /\ (Panda => param \in {0, 1})) =>
        /\ nameErrors = {}
        /\ raised = {}
        /\ Finished => ran = Lines(nb)

C6_Witness ==
    /\ Panda /\ Finished /\ faulty = {} /\ param = 1
    /\ env["edges"] = 487 /\ env["nTFs"] = 369 /\ env["ppath"] = 73
    /\ 482 \in ran /\ 622 \in ran

\* the position in the cell of the statement that starts on line l
IndexIn(cell, l) == CHOOSE k \in 1..Len(cell) : cell[k].line = l

\* runserver outside {0, 1}: ppath is never assigned, and the first file read
\* (line 132, in the fifth cell) raises when its cell is run, as ppath is not
\* assigned
NoPathNoRead ==
    (Panda /\ param \notin {0, 1}) =>
        /\ env'["ppath"] = 0
        /\ val'.filesRead = <<>>
        /\ pc = 5 => (132 \in raised' /\ <<132, "ppath">> \in nameErrors')

\* a statement that raised did not complete, assigned nothing, and no
\* variable holds a value other than the one a completed statement assigned
NoRetryNoDefault ==
    /\ raised \cap ran = {}
    /\ \A x \in DOMAIN env :
          /\ env[x] \notin raised
          /\ env[x] /= 0 => (env[x] \in ran /\ x \in StatementAt(nb, env[x]).targets)

\* C7 as stated: a cell in which a statement raises changes no variable.
C7_FailedCellChangesNothing ==
    [][/\ NoPathNoRead
       /\ NoRetryNoDefault'
       /\ raised' /= raised => (env' = env /\ val' = val)]_vars

\* C7 amended: the statements of the cell before the one that raises have
\* completed and keep what they assigned; the one that raises and those after
\* it assign nothing.
C7_FailingStatementAssignsNothing ==
    [][/\ NoPathNoRead
       /\ NoRetryNoDefault'
       /\ raised' /= raised =>
             LET l == CHOOSE x \in raised' : x \notin raised
                 cell == Cells(nb)[pc]
                 k == IndexIn(cell, l)
                 before == {cell[i] : i \in 1..(k - 1)}
             IN  /\ ran' = ran \cup {st.line : st \in before}
                 /\ \A x \in DOMAIN env :
                       IF \E st \in before : x \in st.targets /\ env'[x] = st.line
                       THEN TRUE
                       ELSE env'[x] = env[x]
                 /\ \A st \in before : \A x \in st.targets :
                       st.when = {} => env'[x] \in {t.line : t \in before}
                 /\ k = 1 => val' = val]_vars

C7_Witness ==
    /\ Dragon
    /\ 86 \in raised /\ 86 \in faulty
    /\ env["X1"] = 85 /\ env["X2"] = 67

RowsOf(e) == 1..Len(e.value)

\* entry (t, g) of a network
Entry(net, t, g) == At(net.v, (g - 1) * net.nr + t)

\* the edges data frame is complete and diffNet is the network it was built
\* from
EdgesBuilt ==
    /\ Panda
    /\ \/ env["edges"] = 397 /\ env["diffNet"] = 368
       \/ env["edges"] = 487

\* C8: edges has nDiffs = 200 rows; row i names the entry of diffNet with the
\* i-th largest absolute weight (from: its transcription factor, to: its gene),
\* the rows are in non-increasing order of absolute weight and no entry left
\* out is heavier than one listed; in the first plot value is the signed
\* weight of the entry.
C8_EdgesAreTopEntries ==
    EdgesBuilt =>
        LET e == val.edges
            net == val.diffNet
            listed == {<<e.from[i], e.to[i]>> : i \in RowsOf(e)}
        IN  /\ Len(e.value) = 200 /\ Len(e.from) = 200 /\ Len(e.to) = 200
            /\ Cardinality(listed) = 200
            /\ \A i \in RowsOf(e) :
                  /\ e.from[i] \in 1..net.nr
                  /\ e.to[i] \in 1..net.nc
                  /\ abs(Entry(net, e.from[i], e.to[i])) = abs(e.value[i])
                  /\ env["edges"] = 397 => Entry(net, e.from[i], e.to[i]) = e.value[i]
                  /\ i > 1 => abs(e.value[i - 1]) >= abs(e.value[i])
            /\ \A t \in 1..net.nr, g \in 1..net.nc :
                  <<t, g>> \notin listed => abs(Entry(net, t, g)) <= abs(e.value[200])

====
